---- MODULE Spec2Model ----
(***************************************************************************)
(* The advanced-search mapping-criteria view-model                         *)
(* (components/advanced-search/advanced-search-mapping-criteria.js).       *)
(*                                                                         *)
(* Encoding of JavaScript values:                                          *)
(*  - a model identifier (model_singular, criteria.objectName) is an       *)
(*    integer: Undefined for a missing property, EmptyString for '', and   *)
(*    1..MaxName for the non-empty identifiers, numbered in the order the  *)
(*    string comparison < puts them;                                       *)
(*  - a display title (title_singular) is a string, UndefinedTitle         *)
(*    standing for a missing property;                                     *)
(*  - an object (a filter, a nested criteria node) carries a ref, its      *)
(*    identity: two objects are the same reference iff their refs agree;   *)
(*  - a model object of CMS.Models is denoted by its registry key.         *)
(***************************************************************************)
EXTENDS Integers, Sequences, FiniteSets, TLC

MaxKeys == 2
MaxName == 2

VARIABLES
  CMS_Models,          \* the global registry CMS.Models: key -> model entry
  mappingKeys,         \* _.keys(GGRC.Mappings.get_canonical_mappings_for(modelName))
  modelName,           \* view-model field
  root,                \* view-model field
  availableAttributes, \* view-model field
  criteria,            \* view-model field: the criteria record
  ret,                 \* outcome of the last operation
  dispatched,          \* events the last operation dispatched
  lastOp,              \* name of the last operation
  pre,                 \* the operated record as it was on entry to the last operation
  beforeAdd,           \* the record on entry to addRelevant(), kept over an immediately following removeRelevant()
  lastRelevant         \* the most recent of addRelevant / removeRelevant

vars == <<CMS_Models, mappingKeys, modelName, root, availableAttributes,
          criteria, ret, dispatched, lastOp, pre, beforeAdd, lastRelevant>>

world == <<CMS_Models, mappingKeys, modelName, root, availableAttributes>>

----------------------------------------------------------------------------
(* JavaScript values *)

Undefined == -1
EmptyString == 0
Names == 1..MaxName
NameValues == {Undefined, EmptyString} \cup Names

UndefinedTitle == "<undefined>"
TitleValues == {UndefinedTitle, "", "Program"}

NullName == 0
Keys == 1..MaxKeys

\* truthiness of an identifier: undefined and '' are falsy
Truthy(v) == v # Undefined /\ v # EmptyString

\* truthiness of a title
TruthyTitle(t) == t # UndefinedTitle /\ t # ""

\* string conversion applied by + to a title operand
ToJSString(t) == IF t = UndefinedTitle THEN "undefined" ELSE t

----------------------------------------------------------------------------
(* The model registry *)

UndefinedModel ==
  [defined |-> FALSE, model_singular |-> Undefined, title_singular |-> UndefinedTitle]

\* every shape a registry entry can have
AnyModels ==
  {UndefinedModel} \cup
  [defined : {TRUE}, model_singular : NameValues, title_singular : TitleValues]

\* entries of a registry whose models all carry both identifiers
WellFormedModels ==
  {UndefinedModel} \cup
  [defined : {TRUE}, model_singular : Names, title_singular : {"Program"}]

\* CMS.Models[key]: a property lookup, undefined for a key the registry lacks
\* (null is looked up as the key 'null', which no registry here has)
ModelAt(key) ==
  IF key \in DOMAIN CMS_Models THEN CMS_Models[key] ELSE UndefinedModel

----------------------------------------------------------------------------
(* Criteria records *)

AbsentFilter == [state |-> "absent", ref |-> 0, type |-> "", content |-> ""]
NullFilter == [state |-> "null", ref |-> 0, type |-> "", content |-> ""]
AbsentMapped == [state |-> "absent", ref |-> 0, type |-> ""]
NullMapped == [state |-> "null", ref |-> 0, type |-> ""]

\* GGRC.Utils.AdvancedSearch.create.attribute(): a new default attribute filter
create_attribute(ref) ==
  [state |-> "object", ref |-> ref, type |-> "attribute", content |-> "default"]

\* GGRC.Utils.AdvancedSearch.create.mappingCriteria(): a new nested criteria node
create_mappingCriteria(ref) ==
  [state |-> "object", ref |-> ref, type |-> "mappingCriteria"]

\* !criteria.filter is false exactly for an object
FilterTruthy(f) == f.state = "object"

\* the records a parent can hand to the component
InputFilters ==
  {AbsentFilter, NullFilter,
   [state |-> "object", ref |-> 1, type |-> "attribute", content |-> "custom"]}
InputMapped == {AbsentMapped, [state |-> "object", ref |-> 2, type |-> "mappingCriteria"]}
Records ==
  [objectName : NameValues, filter : InputFilters, mappedTo : InputMapped,
   other : {"x"}]

UsedRefs(c) ==
  (IF c.filter.state = "object" THEN {c.filter.ref} ELSE {}) \cup
  (IF c.mappedTo.state = "object" THEN {c.mappedTo.ref} ELSE {})

\* the identity of a newly allocated object: distinct from every object of c
FreshRef(c) ==
  CHOOSE n \in 1..(Cardinality(UsedRefs(c)) + 1) :
    /\ n \notin UsedRefs(c)
    /\ \A m \in 1..(n - 1) : m \in UsedRefs(c)

None == <<>>
Some(c) == <<c>>

----------------------------------------------------------------------------
(* Outcomes of an operation *)

NoValue == [kind |-> "none", list |-> <<>>, str |-> ""]
ReturnUndefined == [kind |-> "undefined", list |-> <<>>, str |-> ""]
ReturnRecord == [kind |-> "record", list |-> <<>>, str |-> ""]
ReturnList(l) == [kind |-> "list", list |-> l, str |-> ""]
ReturnString(s) == [kind |-> "string", list |-> <<>>, str |-> s]
Threw == [kind |-> "threw", list |-> <<>>, str |-> "TypeError"]

----------------------------------------------------------------------------
(* criteria setter *)

\* a setter that answers a record without filter by a new record holding
\* only the default filter
criteria_set_rebuild(c) ==
  IF ~FilterTruthy(c.filter)
    THEN [objectName |-> Undefined, filter |-> create_attribute(1),
          mappedTo |-> AbsentMapped, other |-> ""]
    ELSE c

\* a setter that attaches a new default filter on every assignment
criteria_set_always(c) ==
  [c EXCEPT !.filter = create_attribute(FreshRef(c))]

\* a setter that tests criteria.filter === undefined instead of !criteria.filter
criteria_set_onlyAbsent(c) ==
  IF c.filter.state = "absent"
    THEN [c EXCEPT !.filter = create_attribute(FreshRef(c))]
    ELSE c

\* set: function (criteria) { if (!criteria.filter) {...} return criteria; }
criteria_set(c) ==
  IF ~FilterTruthy(c.filter)
    THEN [c EXCEPT !.filter = create_attribute(FreshRef(c))]
    ELSE c

SetCriteria ==
  \E c \in Records \cup {criteria} :
    /\ criteria' = criteria_set(c)
    /\ ret' = ReturnRecord
    /\ dispatched' = <<>>
    /\ lastOp' = "setCriteria"
    /\ pre' = Some(c)
    /\ beforeAdd' = None
    /\ UNCHANGED <<world, lastRelevant>>

----------------------------------------------------------------------------
(* mappingTypes *)

\* _.compact(_.map(keys, function (mapping) { return CMS.Models[mapping]; }))
RECURSIVE compactMap(_)
compactMap(keys) ==
  IF keys = <<>> THEN <<>>
  ELSE IF ModelAt(Head(keys)).defined
    THEN <<Head(keys)>> \o compactMap(Tail(keys))
    ELSE compactMap(Tail(keys))

sortKey(k) == ModelAt(k).model_singular

\* the comparison of _.sortBy: 1 when a sorts after b, -1 when before, 0 when
\* equal; undefined sorts after every other value
compareAscending(a, b) ==
  IF a = b THEN 0
  ELSE IF a = Undefined THEN 1
  ELSE IF b = Undefined THEN -1
  ELSE IF a > b THEN 1 ELSE -1

\* insert k into the sorted sequence s after every entry that does not sort
\* after it (a stable sort keeps equal entries in their input order)
RECURSIVE insertSorted(_, _)
insertSorted(s, k) ==
  IF s = <<>> THEN <<k>>
  ELSE IF compareAscending(sortKey(Head(s)), sortKey(k)) > 0
    THEN <<k>> \o s
    ELSE <<Head(s)>> \o insertSorted(Tail(s), k)

RECURSIVE sortFrom(_, _)
sortFrom(done, rest) ==
  IF rest = <<>> THEN done
  ELSE sortFrom(insertSorted(done, Head(rest)), Tail(rest))

\* a sortBy that leaves the list in the order of the keys
sortBy_unsorted(list) == list

\* _.sortBy(list, 'model_singular')
sortBy(list) == sortFrom(<<>>, list)

\* the predicate of _.filter: mapping.model_singular && mapping.title_singular
hasBothNames(k) ==
  Truthy(ModelAt(k).model_singular) /\ TruthyTitle(ModelAt(k).title_singular)

RECURSIVE filterTypes(_)
filterTypes(list) ==
  IF list = <<>> THEN <<>>
  ELSE IF hasBothNames(Head(list))
    THEN <<Head(list)>> \o filterTypes(Tail(list))
    ELSE filterTypes(Tail(list))

\* var types = _.filter(_.sortBy(_.compact(_.map(_.keys(mappings), ...)), ...), ...)
types == filterTypes(sortBy(compactMap(mappingKeys)))

\* a default taken from the last entry of the list
defaultObjectName_last(c, t) ==
  IF ~Truthy(c.objectName)
    THEN [c EXCEPT !.objectName = sortKey(t[Len(t)])]
    ELSE c

\* if (!this.attr('criteria.objectName')) {
\*   this.attr('criteria.objectName', _.first(types).model_singular); }
\* for a non-empty list t
defaultObjectName(c, t) ==
  IF ~Truthy(c.objectName)
    THEN [c EXCEPT !.objectName = sortKey(Head(t))]
    ELSE c

MappingTypes ==
  /\ IF ~Truthy(criteria.objectName) /\ types = <<>>
       \* _.first([]) is undefined: reading its model_singular throws
       THEN /\ criteria' = criteria
            /\ ret' = Threw
       ELSE /\ criteria' = defaultObjectName(criteria, types)
            /\ ret' = ReturnList(types)
  /\ dispatched' = <<>>
  /\ lastOp' = "mappingTypes"
  /\ pre' = Some(criteria)
  /\ beforeAdd' = None
  /\ UNCHANGED <<world, lastRelevant>>

----------------------------------------------------------------------------
(* title *)

\* a title that looks the model up before it tests root
title_value_lookupFirst ==
  IF ~ModelAt(modelName).defined THEN Threw
  ELSE IF root THEN ReturnString("Mapped To")
  ELSE ReturnString("Where " \o ToJSString(ModelAt(modelName).title_singular)
                    \o " is mapped to")

\* title: function () {...}
title_value ==
  IF root THEN ReturnString("Mapped To")
  ELSE IF ~ModelAt(modelName).defined
    \* CMS.Models[modelName] is undefined: reading its title_singular throws
    THEN Threw
    ELSE ReturnString("Where " \o ToJSString(ModelAt(modelName).title_singular)
                      \o " is mapped to")

Title ==
  /\ ret' = title_value
  /\ dispatched' = <<>>
  /\ lastOp' = "title"
  /\ pre' = Some(criteria)
  /\ beforeAdd' = None
  /\ UNCHANGED <<world, criteria, lastRelevant>>

----------------------------------------------------------------------------
(* remove, addRelevant, removeRelevant *)

\* a remove that dispatches the event twice
remove_events_twice == <<"remove", "remove">>

\* this.dispatch('remove')
remove_events == <<"remove">>

Remove ==
  /\ dispatched' = remove_events
  /\ ret' = ReturnUndefined
  /\ lastOp' = "remove"
  /\ pre' = Some(criteria)
  /\ beforeAdd' = None
  /\ UNCHANGED <<world, criteria, lastRelevant>>

\* this.attr('criteria.mappedTo', GGRC.Utils.AdvancedSearch.create.mappingCriteria())
addRelevant_record(c) ==
  [c EXCEPT !.mappedTo = create_mappingCriteria(FreshRef(c))]

AddRelevant ==
  /\ criteria' = addRelevant_record(criteria)
  /\ ret' = ReturnUndefined
  /\ dispatched' = <<>>
  /\ lastOp' = "addRelevant"
  /\ pre' = Some(criteria)
  /\ beforeAdd' = Some(criteria)
  /\ lastRelevant' = "addRelevant"
  /\ UNCHANGED world

\* a removeRelevant that removes nothing
removeRelevant_record_noop(c) == c

\* a removeRelevant that sets the field to null instead of removing it
removeRelevant_record_clears(c) == [c EXCEPT !.mappedTo = NullMapped]

\* this.removeAttr('criteria.mappedTo')
removeRelevant_record(c) == [c EXCEPT !.mappedTo = AbsentMapped]

RemoveRelevant ==
  /\ criteria' = removeRelevant_record(criteria)
  /\ ret' = ReturnUndefined
  /\ dispatched' = <<>>
  /\ lastOp' = "removeRelevant"
  /\ pre' = Some(criteria)
  /\ beforeAdd' = IF lastOp = "addRelevant" THEN beforeAdd ELSE None
  /\ lastRelevant' = "removeRelevant"
  /\ UNCHANGED world

----------------------------------------------------------------------------
(* Specifications *)

\* _.keys of the canonical mappings of modelName: n distinct keys, named by
\* their place in the enumeration
KeyLists == {[i \in 1..n |-> i] : n \in 0..MaxKeys}

\* the state after construction: the parent supplies modelName, root and the
\* criteria record, which is written through the setter
Constructed(c) ==
  /\ availableAttributes = <<>>
  /\ criteria = criteria_set(c)
  /\ ret = NoValue
  /\ dispatched = <<>>
  /\ lastOp = "construct"
  /\ pre = Some(c)
  /\ beforeAdd = None
  /\ lastRelevant = "none"

Init ==
  /\ CMS_Models \in [Keys -> WellFormedModels]
  /\ mappingKeys \in KeyLists
  /\ modelName \in {NullName} \cup Keys
  /\ root \in BOOLEAN
  /\ \E c \in Records : Constructed(c)

Next ==
  \/ SetCriteria
  \/ MappingTypes
  \/ Title
  \/ Remove
  \/ AddRelevant
  \/ RemoveRelevant

Spec == Init /\ [][Next]_vars

\* mappingTypes() and title() over every registry
NameRecords ==
  {c \in Records : c.filter = AbsentFilter /\ c.mappedTo = AbsentMapped}

InitTypes ==
  /\ CMS_Models \in [Keys -> AnyModels]
  /\ mappingKeys \in KeyLists
  /\ modelName \in {NullName} \cup Keys
  /\ root \in BOOLEAN
  /\ \E c \in NameRecords : Constructed(c)

NextTypes ==
  \/ MappingTypes
  \/ Title

SpecTypes == InitTypes /\ [][NextTypes]_vars

----------------------------------------------------------------------------
(* Properties *)

IsOp(op) == lastOp = op /\ pre # None
entry == Head(pre)
returned == ret.list
Range(s) == {s[i] : i \in 1..Len(s)}

\* the registry types keyed by a canonical mapping that have both a non-empty
\* model_singular and a non-empty title_singular
ExpectedTypes ==
  {k \in Range(mappingKeys) :
     /\ ModelAt(k).defined
     /\ Truthy(ModelAt(k).model_singular)
     /\ TruthyTitle(ModelAt(k).title_singular)}

\* C1: when the filtered, sorted list of types is empty and
\* criteria.objectName is unset, mappingTypes() returns the empty list, leaves
\* objectName unset and raises no fault.
C1_EmptyTypesNoFault ==
  (IsOp("mappingTypes") /\ types = <<>> /\ entry.objectName = Undefined) =>
    /\ ret = ReturnList(<<>>)
    /\ criteria.objectName = Undefined

\* C2: assigning a record that has no filter field through the setter yields
\* that record with a default attribute filter under filter and every other
\* field unaltered.
C2_SetterAttachesDefaultFilter ==
  (IsOp("setCriteria") /\ entry.filter.state = "absent") =>
    /\ criteria.filter.state = "object"
    /\ criteria.filter.type = "attribute"
    /\ criteria.filter.content = "default"
    /\ criteria.objectName = entry.objectName
    /\ criteria.mappedTo = entry.mappedTo
    /\ criteria.other = entry.other

C2_Witness ==
  /\ IsOp("setCriteria")
  /\ entry.filter.state = "absent"
  /\ entry.mappedTo.state = "object"
  /\ Truthy(entry.objectName)
  /\ criteria.filter.content = "default"

\* C3: assigning a record that already has a filter leaves that filter (its
\* reference and its content) unchanged, and assigning the resulting record
\* once more yields the same filter again.
C3_SetterKeepsFilter ==
  IsOp("setCriteria") =>
    /\ FilterTruthy(entry.filter) => criteria.filter = entry.filter
    /\ criteria_set(criteria).filter = criteria.filter

\* the second assignment of a record whose filter the first assignment created
C3_Witness ==
  /\ IsOp("setCriteria")
  /\ FilterTruthy(entry.filter)
  /\ entry.filter.content = "default"
  /\ criteria.filter = entry.filter

\* C4 as stated: addRelevant() followed immediately by removeRelevant() leaves
\* the record without mappedTo and identical to its state before
\* addRelevant(), also when it carried a mappedTo then.
C4_RoundTripIdentical ==
  (lastOp = "removeRelevant" /\ beforeAdd # None) =>
    /\ criteria.mappedTo.state = "absent"
    /\ criteria = Head(beforeAdd)

\* C4 amended: addRelevant() followed immediately by removeRelevant() leaves
\* the record without mappedTo and every other field as it was before
\* addRelevant(); the record is identical to its state before addRelevant()
\* exactly when it carried no mappedTo then.
C4_RoundTripRemovesMappedTo ==
  (lastOp = "removeRelevant" /\ beforeAdd # None) =>
    /\ criteria.mappedTo.state = "absent"
    /\ criteria = [Head(beforeAdd) EXCEPT !.mappedTo = AbsentMapped]
    /\ (criteria = Head(beforeAdd)) <=> (Head(beforeAdd).mappedTo.state = "absent")

C4_Witness ==
  /\ lastOp = "removeRelevant"
  /\ beforeAdd # None
  /\ Head(beforeAdd).mappedTo.state = "absent"
  /\ criteria = Head(beforeAdd)

\* C5: the list mappingTypes() returns is sorted ascending by model_singular
\* and holds exactly the registry types keyed by a canonical mapping that have
\* both a non-empty model_singular and a non-empty title_singular.
C5_TypesSortedAndComplete ==
  (IsOp("mappingTypes") /\ ret.kind = "list") =>
    /\ \A i \in 1..Len(returned) : \A j \in 1..Len(returned) :
         i < j => /\ Truthy(sortKey(returned[i]))
                  /\ sortKey(returned[i]) <= sortKey(returned[j])
    /\ Range(returned) = ExpectedTypes
    /\ Len(returned) = Cardinality(ExpectedTypes)

\* a list whose order differs from the order of the keys
C5_Witness ==
  /\ IsOp("mappingTypes")
  /\ ret.kind = "list"
  /\ Len(returned) >= 2
  /\ returned[1] > returned[2]
  /\ sortKey(returned[1]) < sortKey(returned[2])

\* C6: when criteria.objectName is unset and mappingTypes() returns a
\* non-empty list, objectName is afterwards the model_singular of the first
\* entry of the returned list; when objectName was set, the call leaves it
\* unchanged.
C6_DefaultObjectName ==
  IsOp("mappingTypes") =>
    /\ (~Truthy(entry.objectName) /\ ret.kind = "list" /\ returned # <<>>) =>
         criteria.objectName = sortKey(returned[1])
    /\ Truthy(entry.objectName) => criteria.objectName = entry.objectName

C6_Witness ==
  /\ IsOp("mappingTypes")
  /\ entry.objectName = Undefined
  /\ ret.kind = "list"
  /\ Len(returned) >= 2
  /\ sortKey(returned[1]) # sortKey(returned[2])
  /\ criteria.objectName = sortKey(returned[1])

\* C7: title() returns 'Mapped To' whenever root is true, whatever modelName
\* is (null or a name the registry lacks included, without fault); when root
\* is false it returns 'Where ' + the title_singular of the model named by
\* modelName + ' is mapped to'; it changes no field of the view-model or of
\* the criteria record.
C7_Title ==
  [][lastOp' = "title" =>
       /\ root' => ret' = ReturnString("Mapped To")
       /\ (~root' /\ ModelAt(modelName).defined) =>
            /\ ret'.kind = "string"
            /\ ret'.str = "Where " \o ToJSString(ModelAt(modelName).title_singular)
                            \o " is mapped to"
       /\ UNCHANGED <<criteria, modelName, root, availableAttributes>>]_vars

C7_Witness ==
  /\ IsOp("title")
  /\ root
  /\ ~ModelAt(modelName).defined
  /\ ret = ReturnString("Mapped To")
  /\ criteria = entry

\* C8: remove() emits exactly one 'remove' event and leaves every field of
\* the view-model (criteria with its objectName, filter and mappedTo,
\* modelName, root, availableAttributes) unchanged.
C8_RemoveOnlyDispatches ==
  [][lastOp' = "remove" =>
       /\ dispatched' = <<"remove">>
       /\ UNCHANGED <<criteria, modelName, root, availableAttributes>>]_vars

C8_Witness ==
  /\ IsOp("remove")
  /\ dispatched = <<"remove">>
  /\ criteria = entry
  /\ criteria.mappedTo.state = "object"

\* C9: once criteria has been written through the setter, criteria.filter is
\* set in every reachable state, whatever operations follow.
C9_FilterAlwaysSet == criteria.filter.state = "object"

\* a record whose filter the setter created, after addRelevant() and
\* removeRelevant()
C9_Witness ==
  /\ lastOp = "removeRelevant"
  /\ beforeAdd # None
  /\ criteria.filter.state = "object"
  /\ criteria.filter.content = "default"
  /\ Truthy(criteria.objectName)

HasMappedTo == criteria.mappedTo.state # "absent"

\* C10 as stated: in every reachable state mappedTo is present if and only if
\* the most recent of addRelevant() and removeRelevant() was addRelevant().
C10_PresentIffLastWasAdd ==
  HasMappedTo <=> (lastRelevant = "addRelevant")

\* C10 amended: after addRelevant() mappedTo is present; after
\* removeRelevant() the field is deleted, not set to an empty value;
\* mappingTypes(), title() and remove() leave mappedTo as it was; and set
\* criteria leaves the mappedTo of the record it is given as it was, so a
\* record that arrives with a mappedTo has one although addRelevant() was not
\* the most recent of the two operations.
C10_MappedToToggledOnlyOnRecord ==
  /\ lastOp = "addRelevant" => criteria.mappedTo.state = "object"
  /\ lastOp = "removeRelevant" => criteria.mappedTo = AbsentMapped
  /\ lastOp \in {"construct", "setCriteria", "mappingTypes", "title", "remove"} =>
       criteria.mappedTo = entry.mappedTo

C10_Witness ==
  /\ IsOp("setCriteria")
  /\ lastRelevant = "removeRelevant"
  /\ HasMappedTo
  /\ criteria.mappedTo = entry.mappedTo

====
